---------------------------- MODULE Spec2Model ----------------------------
(***************************************************************************)
(* Donation tracker (Streamlit + SQLite).  The module models               *)
(*   - the record store of src/2agents.py / src/login.py: the `roles`      *)
(*     table (at most one row, id = 1) and the `donors` table;             *)
(*   - the first-come role determination every script run performs in     *)
(*     src/2agents.py (same text in src/pot.py and src/2agents_display.py);*)
(*   - the password-gated role selection screen of src/login.py.           *)
(*                                                                         *)
(* Every store function opens its own connection, runs inside `with        *)
(* db_lock` and commits before it returns: one call is one atomic step.    *)
(* A script run makes several calls, so other sessions' calls interleave  *)
(* between them.                                                           *)
(***************************************************************************)
EXTENDS Integers, Sequences, FiniteSets, TLC

\* Number of browser sessions that may visit the app.
NumSessions == 3

\* st.session_state.session_id values (uuid4 strings); None is SQL NULL / Python None.
Sessions == 1..NumSessions
None == 0

VARIABLES
    roles,          \* table roles: {} or one row [admin_session, editor_session]
    donors,         \* table donors: set of rows
    seq,            \* sqlite_sequence of donors (AUTOINCREMENT): last id handed out
    now,            \* CURRENT_TIMESTAMP, whole seconds
    pc,             \* per session: position of its script run
    admin_session,  \* per session: local admin_session of the running script
    editor_session, \* per session: local editor_session of the running script
    user_role,      \* per session: user_role (st.session_state.user_role in login.py)
    admin_taken,    \* per session, login.py: local admin_taken of the role selection screen
    editor_taken,   \* per session, login.py: local editor_taken of the role selection screen
    clicked,        \* per session, login.py: the button whose click started the current run
    pass_input,     \* per session, login.py: text of the password field beside that button
    message,        \* per session, login.py: st.error / st.success shown by the current run
    lastCall,       \* store calls: the latest donors-table call, its arguments, what its row held
    outcome,        \* store calls: what that call reported to its caller
    event_stopped,  \* per session: st.session_state.event_stopped of the admin screen
    editor_donor_id, \* per session: local donor_id of the editor screen (pending[0][0])
    parser,         \* extraction: the agent's response text and the data parsed from it
    photo,          \* per session: value of st.camera_input on the upload screen
    scenario,       \* how far the end-to-end walk through the app has come
    db_lock,        \* per session: the Lock object the global db_lock of its script run names
    locks,          \* threading.Lock objects created so far
    locked,         \* the Lock objects that are held
    in_section,     \* per session: the store function whose 'with db_lock' block it is in
    app,            \* the script that is deployed, for what differs between the variants
    last_shown_donor_id \* st.session_state.last_shown_donor_id of the dashboard session

sessionVars == <<pc, admin_session, editor_session, user_role>>
loginVars == <<admin_taken, editor_taken, clicked, pass_input, message>>
storeVars == <<donors, seq, now>>
callVars == <<lastCall, outcome>>
uploadVars == <<parser, photo, scenario>>
lockVars == <<db_lock, locks, locked, in_section>>
screenVars == <<app, last_shown_donor_id>>
appVars == <<event_stopped, editor_donor_id, uploadVars, lockVars, screenVars>>

vars == <<roles, storeVars, sessionVars, loginVars, callVars, appVars>>

--------------------------------------------------------------------------
(* Record store: the roles table *)

\* SELECT admin_session, editor_session FROM roles WHERE id = 1; (None, None) without a row
get_roles(r) ==
    IF r = {} THEN <<None, None>>
    ELSE LET result == CHOOSE row \in r : TRUE
         IN  <<result.admin_session, result.editor_session>>

\* UPDATE of the one column when the row exists, INSERT of a row with the other column NULL otherwise
set_role(r, role_type, session_id) ==
    IF r # {}
    THEN { IF role_type = "admin"
           THEN [row EXCEPT !.admin_session = session_id]
           ELSE [row EXCEPT !.editor_session = session_id] : row \in r }
    ELSE IF role_type = "admin"
         THEN {[admin_session |-> session_id, editor_session |-> None]}
         ELSE {[admin_session |-> None, editor_session |-> session_id]}

\* DELETE FROM roles
clear_all_sessions(r) == {}

--------------------------------------------------------------------------
(* Record store: the donors table.  A row is                               *)
(* [id, full_name, amount, image_data, status, timestamp].                 *)

\* Rows ever inserted into donors, and the last second of the clock
MaxId == 3
MaxTime == 1

\* Field contents the callers pass
Names == {"", "Anon"}
Amounts == {"", "20"}
Images == {"img1"}

\* Mutant: the INSERT creates the row already confirmed
add_donor_pending_Confirmed(D, id, ts, image_bytes, extracted_data) ==
    D \cup {[id |-> id,
             full_name |-> extracted_data.name,
             amount |-> extracted_data.amount,
             image_data |-> image_bytes,
             status |-> "confirmed",
             timestamp |-> ts]}

\* INSERT INTO donors (full_name, amount, image_data, status) VALUES (?, ?, ?, 'pending'):
\* id is the next AUTOINCREMENT value, timestamp defaults to CURRENT_TIMESTAMP
add_donor_pending(D, id, ts, image_bytes, extracted_data) ==
    D \cup {[id |-> id,
             full_name |-> extracted_data.name,
             amount |-> extracted_data.amount,
             image_data |-> image_bytes,
             status |-> "pending",
             timestamp |-> ts]}

\* Mutant: the UPDATE forgets status = 'confirmed'
update_donor_KeepsStatus(D, donor_id, name, amount) ==
    { IF d.id = donor_id
      THEN [d EXCEPT !.full_name = name, !.amount = amount]
      ELSE d : d \in D }

\* Mutant: the UPDATE touches pending rows only (WHERE id = ? AND status = 'pending')
update_donor_PendingOnly(D, donor_id, name, amount) ==
    { IF d.id = donor_id /\ d.status = "pending"
      THEN [d EXCEPT !.full_name = name, !.amount = amount, !.status = "confirmed"]
      ELSE d : d \in D }

\* Mutant: the UPDATE is two statements and only the first, SET status = 'confirmed',
\* is committed when others read
update_donor_StatusFirst(D, donor_id, name, amount) ==
    { IF d.id = donor_id
      THEN [d EXCEPT !.status = "confirmed"]
      ELSE d : d \in D }

\* Mutant: the UPDATE has no WHERE clause and rewrites every row
update_donor_AllRows(D, donor_id, name, amount) ==
    { [d EXCEPT !.full_name = name, !.amount = amount, !.status = "confirmed"] : d \in D }

\* UPDATE donors SET full_name = ?, amount = ?, status = 'confirmed' WHERE id = ?
update_donor(D, donor_id, name, amount) ==
    { IF d.id = donor_id
      THEN [d EXCEPT !.full_name = name, !.amount = amount, !.status = "confirmed"]
      ELSE d : d \in D }

\* Mutant: the DELETE spares confirmed rows (DELETE FROM donors WHERE status = 'pending')
clear_all_donors_PendingOnly(D) == {d \in D : d.status # "pending"}

\* DELETE FROM donors
clear_all_donors(D) == {}

\* ORDER BY timestamp ASC (asc) or DESC: every order of the rows S the clause allows;
\* rows with equal timestamps come in an order SQLite leaves open
RECURSIVE OrderByTimestamp(_, _)
OrderByTimestamp(S, asc) ==
    IF S = {} THEN {<<>>}
    ELSE LET first == { d \in S : \A e \in S :
                          IF asc THEN d.timestamp <= e.timestamp
                                 ELSE d.timestamp >= e.timestamp }
         IN  UNION { { <<d>> \o rest : rest \in OrderByTimestamp(S \ {d}, asc) } : d \in first }

\* Mutant: the pending query orders newest first (ORDER BY timestamp DESC)
get_pending_donors_NewestFirst(D) ==
    OrderByTimestamp({ [id |-> d.id, full_name |-> d.full_name, amount |-> d.amount,
                        image_data |-> d.image_data, timestamp |-> d.timestamp]
                       : d \in { x \in D : x.status = "pending" } }, FALSE)

\* SELECT id, full_name, amount, image_data, timestamp FROM donors
\* WHERE status = "pending" ORDER BY timestamp ASC: the possible fetchall() results
get_pending_donors(D) ==
    OrderByTimestamp({ [id |-> d.id, full_name |-> d.full_name, amount |-> d.amount,
                        image_data |-> d.image_data, timestamp |-> d.timestamp]
                       : d \in { x \in D : x.status = "pending" } }, TRUE)

\* Mutant: the confirmed query orders oldest first (ORDER BY timestamp ASC)
get_confirmed_donors_OldestFirst(D) ==
    OrderByTimestamp({ [id |-> d.id, full_name |-> d.full_name, amount |-> d.amount,
                        timestamp |-> d.timestamp]
                       : d \in { x \in D : x.status = "confirmed" } }, TRUE)

\* SELECT id, full_name, amount, timestamp FROM donors
\* WHERE status = "confirmed" ORDER BY timestamp DESC: the possible fetchall() results
get_confirmed_donors(D) ==
    OrderByTimestamp({ [id |-> d.id, full_name |-> d.full_name, amount |-> d.amount,
                        timestamp |-> d.timestamp]
                       : d \in { x \in D : x.status = "confirmed" } }, FALSE)

--------------------------------------------------------------------------
(* First-come role determination (module level of the script) *)

\* Mutant: the editor branch does not test session_id != admin_session
RoleDecision_NoAdminTest(session_id, admin, editor) ==
    IF admin = None
    THEN [role |-> "admin", write |-> "admin"]
    ELSE IF editor = None
    THEN [role |-> "editor", write |-> "editor"]
    ELSE IF session_id = admin
    THEN [role |-> "admin", write |-> "none"]
    ELSE IF session_id = editor
    THEN [role |-> "editor", write |-> "none"]
    ELSE [role |-> "donor", write |-> "none"]

\* Mutant: the chain has no 'elif session_id == editor_session' branch
RoleDecision_NoEditorBranch(session_id, admin, editor) ==
    IF admin = None
    THEN [role |-> "admin", write |-> "admin"]
    ELSE IF editor = None /\ session_id # admin
    THEN [role |-> "editor", write |-> "editor"]
    ELSE IF session_id = admin
    THEN [role |-> "admin", write |-> "none"]
    ELSE [role |-> "donor", write |-> "none"]

\* The if/elif chain: the role the run gets and the set_role call it makes ("none": no call)
RoleDecision(session_id, admin, editor) ==
    IF admin = None
    THEN [role |-> "admin", write |-> "admin"]
    ELSE IF editor = None /\ session_id # admin
    THEN [role |-> "editor", write |-> "editor"]
    ELSE IF session_id = admin
    THEN [role |-> "admin", write |-> "none"]
    ELSE IF session_id = editor
    THEN [role |-> "editor", write |-> "none"]
    ELSE [role |-> "donor", write |-> "none"]

\* No agent has responded yet
NoResponse == [stage |-> "idle", variant |-> "none", content |-> "",
               data |-> [name |-> "", amount |-> ""]]

\* No donors-table call made yet
NoCall == [op |-> "none", donor_id |-> 0, name |-> "", amount |-> "", prior |-> {}]

Init ==
    /\ roles = {}
    /\ donors = {}
    /\ seq = 0
    /\ now = 0
    /\ pc = [s \in Sessions |-> "absent"]
    /\ admin_session = [s \in Sessions |-> None]
    /\ editor_session = [s \in Sessions |-> None]
    /\ user_role = [s \in Sessions |-> "unset"]
    /\ admin_taken = [s \in Sessions |-> FALSE]
    /\ editor_taken = [s \in Sessions |-> FALSE]
    /\ clicked = [s \in Sessions |-> "none"]
    /\ pass_input = [s \in Sessions |-> ""]
    /\ message = [s \in Sessions |-> "none"]
    /\ lastCall = NoCall
    /\ outcome = "none"
    /\ event_stopped = [s \in Sessions |-> FALSE]
    /\ editor_donor_id = [s \in Sessions |-> 0]
    /\ parser = NoResponse
    /\ photo = [s \in Sessions |-> "none"]
    /\ scenario = 0
    /\ db_lock = [s \in Sessions |-> None]
    /\ locks = 0
    /\ locked = {}
    /\ in_section = [s \in Sessions |-> "none"]
    /\ app = "none"
    /\ last_shown_donor_id = None

\* A browser opens the app: the session gets its session_id and its first script run starts
Connect(s) ==
    /\ pc[s] = "absent"
    /\ pc' = [pc EXCEPT ![s] = "get_roles"]
    /\ UNCHANGED <<roles, storeVars, admin_session, editor_session, user_role, loginVars, callVars, appVars>>

\* admin_session, editor_session = get_roles()
GetRoles(s) ==
    /\ pc[s] = "get_roles"
    /\ admin_session' = [admin_session EXCEPT ![s] = get_roles(roles)[1]]
    /\ editor_session' = [editor_session EXCEPT ![s] = get_roles(roles)[2]]
    /\ pc' = [pc EXCEPT ![s] = "determine"]
    /\ UNCHANGED <<roles, storeVars, user_role, loginVars, callVars, appVars>>

\* The if/elif chain with its set_role call; the screen of the role is then rendered
DetermineRole(s) ==
    /\ pc[s] = "determine"
    /\ LET d == RoleDecision(s, admin_session[s], editor_session[s])
       IN  /\ roles' = IF d.write = "none" THEN roles ELSE set_role(roles, d.write, s)
           /\ user_role' = [user_role EXCEPT ![s] = d.role]
    /\ pc' = [pc EXCEPT ![s] = "rendered"]
    /\ UNCHANGED <<storeVars, admin_session, editor_session, loginVars, callVars, appVars>>

\* st.rerun(), the auto-refresh timers, or any widget interaction: the script runs again from the top
Rerun(s) ==
    /\ pc[s] = "rendered"
    /\ pc' = [pc EXCEPT ![s] = "get_roles"]
    /\ UNCHANGED <<roles, storeVars, admin_session, editor_session, user_role, loginVars, callVars, appVars>>

Next ==
    \E s \in Sessions :
        \/ Connect(s)
        \/ GetRoles(s)
        \/ DetermineRole(s)
        \/ Rerun(s)

Spec == Init /\ [][Next]_vars

--------------------------------------------------------------------------
(* First-come variant: claims *)

\* Sessions that have opened the app
Connected == {s \in Sessions : pc[s] # "absent"}

\* Sessions whose latest determination gave them role r
ClassifiedAs(r) == {s \in Connected : user_role[s] = r}

\* Every visiting session has finished a role evaluation that read the roles row as it stands now
Quiescent ==
    /\ Connected # {}
    /\ \A s \in Connected :
          /\ pc[s] = "rendered"
          /\ <<admin_session[s], editor_session[s]>> = get_roles(roles)

\* C1 as stated: once every session has finished re-evaluating its role, exactly one session
\* is Admin, exactly one is Editor, and every other session is Uploader ('donor'),
\* for any number of sessions.
C1_AsStated ==
    Quiescent =>
        /\ Cardinality(ClassifiedAs("admin")) = 1
        /\ Cardinality(ClassifiedAs("editor")) = 1
        /\ Connected \ (ClassifiedAs("admin") \cup ClassifiedAs("editor")) = ClassifiedAs("donor")

\* C1 amended: once every visiting session has finished a role evaluation that read the
\* roles row as it finally stands, exactly one session is Admin, exactly one other session
\* is Editor when at least two sessions visit (none when a single session visits), and
\* every other session is Uploader ('donor').
C1_RoleExclusivity ==
    Quiescent =>
        /\ Cardinality(ClassifiedAs("admin")) = 1
        /\ Cardinality(ClassifiedAs("editor")) = (IF Cardinality(Connected) >= 2 THEN 1 ELSE 0)
        /\ ClassifiedAs("admin") \cap ClassifiedAs("editor") = {}
        /\ Connected \ (ClassifiedAs("admin") \cup ClassifiedAs("editor")) = ClassifiedAs("donor")

\* C1 witness: all sessions have visited, raced, and settled with the editor slot claimed
C1_Witness ==
    /\ Quiescent
    /\ Connected = Sessions
    /\ get_roles(roles)[2] # None

\* C2: at most one Admin and one Editor at any time: no two distinct sessions hold
\* user_role 'admin' for their current script run, and no two hold 'editor'.
C2_AtMostOneAdminOneEditor ==
    \A s, t \in Sessions :
        (s # t /\ pc[s] = "rendered" /\ pc[t] = "rendered")
            => ~(user_role[s] = user_role[t] /\ user_role[s] \in {"admin", "editor"})

\* C3: set-if-null role claim: once admin_session (editor_session) holds a session
\* identity, no later set_role call replaces it with another identity or clears it
\* (the first-come variant has no reset of the roles row).
C3_SetIfNull ==
    [][ /\ get_roles(roles)[1] # None => get_roles(roles')[1] = get_roles(roles)[1]
        /\ get_roles(roles)[2] # None => get_roles(roles')[2] = get_roles(roles)[2] ]_vars

\* C5: role stability: once a session has been classified, every later evaluation by
\* that session yields the same role, whatever other sessions do in between.
C5_RoleStability ==
    [][ \A s \in Sessions : user_role[s] # "unset" => user_role'[s] = user_role[s] ]_vars

\* C25: the code's role decision refines the ordered steps of the specification:
\* for every reachable roles row and every session identity, and for what each run
\* has read when it decides, the code's branch order gives the same role and the
\* same write as: caller equals admin -> admin; caller equals editor -> editor;
\* admin unset -> claim admin; editor unset -> claim editor; otherwise uploader.
C25_DecisionRefinesSteps ==
    LET Steps(session_id, admin, editor) ==
            IF session_id = admin THEN [role |-> "admin", write |-> "none"]
            ELSE IF session_id = editor THEN [role |-> "editor", write |-> "none"]
            ELSE IF admin = None THEN [role |-> "admin", write |-> "admin"]
            ELSE IF editor = None THEN [role |-> "editor", write |-> "editor"]
            ELSE [role |-> "donor", write |-> "none"]
    IN  \A s \in Sessions :
           /\ RoleDecision(s, get_roles(roles)[1], get_roles(roles)[2])
                 = Steps(s, get_roles(roles)[1], get_roles(roles)[2])
           /\ pc[s] = "determine" =>
                 RoleDecision(s, admin_session[s], editor_session[s])
                    = Steps(s, admin_session[s], editor_session[s])

\* C25 witness: admin and editor are recorded, and the editor's run, the admin's run
\* and a third session's run each decide on a row they have read
C25_Witness ==
    /\ get_roles(roles)[1] # None /\ get_roles(roles)[2] # None
    /\ \E s, t, u \in Sessions :
          /\ s = get_roles(roles)[1] /\ t = get_roles(roles)[2] /\ u \notin {s, t}
          /\ pc[s] = "determine" /\ pc[t] = "determine" /\ pc[u] = "determine"
          /\ editor_session[t] = t /\ admin_session[s] = s /\ admin_session[u] = s

--------------------------------------------------------------------------
(* Password-gated variant: the role selection screen of login.py.          *)
(* user_role is st.session_state.user_role ("unset" is None): it is        *)
(* resolved from the roles row by a session's first run only and cached.   *)
(* A step is one store call together with the local work of the script up  *)
(* to its next store call.  The get_roles() at the top of a run whose      *)
(* user_role is already cached is read by nothing and is left out, and the *)
(* store calls the admin, editor and donor screens make on the donors      *)
(* table are left to the store's own specification.                        *)

\* What a user types into a password field
Passwords == {"admin123", "editor123"}

\* Mutant: any non-empty password is accepted
PasswordMatches_NonEmpty(role_type, password) == password # ""

\* admin_password == "admin123" / editor_password == "editor123"
PasswordMatches(role_type, password) ==
    IF role_type = "admin" THEN password = "admin123" ELSE password = "editor123"

\* Cached role resolution of a session whose user_role is None
ResolveRole(session_id, admin, editor) ==
    IF session_id = admin THEN "admin"
    ELSE IF session_id = editor THEN "editor"
    ELSE "select"

\* Buttons of the role selection screen as the latest run of session s drew it
ButtonsShown(s) ==
    {"donor"}
        \cup (IF ~admin_taken[s] THEN {"login_admin"} ELSE {})
        \cup (IF ~editor_taken[s] /\ admin_taken[s] THEN {"login_editor"} ELSE {})

\* A script run of session s starts, triggered by button b with password field p:
\* fresh locals, an empty page; nextpc is where the run first meets the store
StartRun(s, b, p, nextpc) ==
    /\ clicked' = [clicked EXCEPT ![s] = b]
    /\ pass_input' = [pass_input EXCEPT ![s] = p]
    /\ message' = [message EXCEPT ![s] = "none"]
    /\ admin_taken' = [admin_taken EXCEPT ![s] = FALSE]
    /\ editor_taken' = [editor_taken EXCEPT ![s] = FALSE]
    /\ pc' = [pc EXCEPT ![s] = nextpc]

\* The run of session s ends with its page drawn: the click that started it is spent
EndRun(s) ==
    /\ clicked' = [clicked EXCEPT ![s] = "none"]
    /\ pass_input' = [pass_input EXCEPT ![s] = ""]
    /\ pc' = [pc EXCEPT ![s] = "rendered"]

\* A browser opens the app: first script run, user_role = None
LoginConnect(s) ==
    /\ pc[s] = "absent"
    /\ StartRun(s, "none", "", "get_roles")
    /\ UNCHANGED <<roles, storeVars, admin_session, editor_session, user_role, callVars, appVars>>

\* admin_session, editor_session = get_roles() and the resolution of user_role = None
LoginGetRoles(s) ==
    /\ pc[s] = "get_roles"
    /\ user_role' = [user_role EXCEPT ![s] =
                        IF user_role[s] = "unset"
                        THEN ResolveRole(s, get_roles(roles)[1], get_roles(roles)[2])
                        ELSE user_role[s]]
    /\ pc' = [pc EXCEPT ![s] = IF user_role'[s] = "select" THEN "select" ELSE "rendered"]
    /\ UNCHANGED <<roles, storeVars, admin_session, editor_session, loginVars, callVars, appVars>>

\* On the role selection screen the user presses a button it shows, a password typed
\* beside a login button, or edits a field, which reruns the script with no button pressed
LoginClick(s) ==
    /\ pc[s] = "rendered" /\ user_role[s] = "select"
    /\ \E b \in ButtonsShown(s) \cup {"none"} :
          \E p \in (IF b \in {"login_admin", "login_editor"} THEN Passwords ELSE {""}) :
              StartRun(s, b, p, "select")
    /\ UNCHANGED <<roles, storeVars, admin_session, editor_session, user_role, callVars, appVars>>

\* Role selection screen: the fresh get_roles(), admin_taken / editor_taken, and the
\* buttons up to the store call a login makes.  'Continue as Donor' ends in st.rerun()
\* to the donor screen, a run that has no admin_taken / editor_taken
LoginSelect(s) ==
    /\ pc[s] = "select"
    /\ LET at == get_roles(roles)[1] # None
           et == get_roles(roles)[2] # None
       IN  /\ admin_taken' = [admin_taken EXCEPT ![s] = at /\ clicked[s] # "donor"]
           /\ editor_taken' = [editor_taken EXCEPT ![s] = et /\ clicked[s] # "donor"]
           /\ IF clicked[s] = "login_admin" /\ ~at
              THEN IF PasswordMatches("admin", pass_input[s])
                   THEN /\ pc' = [pc EXCEPT ![s] = "clear_all_sessions"]
                        /\ UNCHANGED <<clicked, pass_input, message, user_role>>
                   ELSE /\ message' = [message EXCEPT ![s] = "error"]
                        /\ EndRun(s)
                        /\ UNCHANGED user_role
              ELSE IF clicked[s] = "login_editor" /\ ~et /\ at
              THEN IF PasswordMatches("editor", pass_input[s])
                   THEN /\ pc' = [pc EXCEPT ![s] = "set_editor"]
                        /\ UNCHANGED <<clicked, pass_input, message, user_role>>
                   ELSE /\ message' = [message EXCEPT ![s] = "error"]
                        /\ EndRun(s)
                        /\ UNCHANGED user_role
              ELSE IF clicked[s] = "donor"
              THEN /\ user_role' = [user_role EXCEPT ![s] = "donor"]
                   /\ EndRun(s)
                   /\ UNCHANGED message
              ELSE /\ EndRun(s)
                   /\ UNCHANGED <<message, user_role>>
    /\ UNCHANGED <<roles, storeVars, admin_session, editor_session, callVars, appVars>>

\* Admin login: clear_all_sessions()
LoginClearSessions(s) ==
    /\ pc[s] = "clear_all_sessions"
    /\ roles' = clear_all_sessions(roles)
    /\ pc' = [pc EXCEPT ![s] = "set_admin"]
    /\ UNCHANGED <<storeVars, admin_session, editor_session, user_role, loginVars, callVars, appVars>>

\* Admin login: set_role('admin', session_id); user_role = 'admin'; st.rerun() to the admin screen
LoginSetAdmin(s) ==
    /\ pc[s] = "set_admin"
    /\ roles' = set_role(roles, "admin", s)
    /\ user_role' = [user_role EXCEPT ![s] = "admin"]
    /\ StartRun(s, "none", "", "rendered")
    /\ UNCHANGED <<storeVars, admin_session, editor_session, callVars, appVars>>

\* Editor login: set_role('editor', session_id); user_role = 'editor'; st.rerun() to the editor screen
LoginSetEditor(s) ==
    /\ pc[s] = "set_editor"
    /\ roles' = set_role(roles, "editor", s)
    /\ user_role' = [user_role EXCEPT ![s] = "editor"]
    /\ StartRun(s, "none", "", "rendered")
    /\ UNCHANGED <<storeVars, admin_session, editor_session, callVars, appVars>>

\* Sidebar Logout of the admin and editor screens: user_role = 'select'; st.rerun()
LoginLogout(s) ==
    /\ pc[s] = "rendered" /\ user_role[s] \in {"admin", "editor"}
    /\ user_role' = [user_role EXCEPT ![s] = "select"]
    /\ StartRun(s, "none", "", "select")
    /\ UNCHANGED <<roles, storeVars, admin_session, editor_session, callVars, appVars>>

NextLogin ==
    \E s \in Sessions :
        \/ LoginConnect(s)
        \/ LoginGetRoles(s)
        \/ LoginClick(s)
        \/ LoginSelect(s)
        \/ LoginClearSessions(s)
        \/ LoginSetAdmin(s)
        \/ LoginSetEditor(s)
        \/ LoginLogout(s)

SpecLogin == Init /\ [][NextLogin]_vars

\* C4: editor only after admin: editor_session is non-null only if admin_session is
\* non-null, also while an admin login's clear_all_sessions interleaves with an
\* editor login's set_role.
C4_EditorOnlyAfterAdmin ==
    get_roles(roles)[2] # None => get_roles(roles)[1] # None

\* Session s is about to handle a login press with a password that does not match,
\* on a button its run still draws
WrongPasswordAttempt(s) ==
    /\ pc[s] = "select"
    /\ \/ /\ clicked[s] = "login_admin"
          /\ get_roles(roles)[1] = None
          /\ pass_input[s] # "admin123"
       \/ /\ clicked[s] = "login_editor"
          /\ get_roles(roles)[2] = None /\ get_roles(roles)[1] # None
          /\ pass_input[s] # "editor123"

\* C6: a 'Login as Admin' / 'Login as Editor' attempt with a wrong password reports an
\* error, calls neither set_role nor clear_all_sessions, leaves the roles row as it
\* was and leaves the session's role 'select'.
C6_UnauthorizedLeavesState ==
    [][ \A s \in Sessions :
          (WrongPasswordAttempt(s) /\ pc'[s] # pc[s]) =>
              /\ message'[s] = "error"
              /\ roles' = roles
              /\ pc'[s] = "rendered"
              /\ user_role[s] = "select" /\ user_role'[s] = "select" ]_vars

\* C6 witness: a failed editor login is on display while an admin holds the roles row
C6_Witness ==
    \E s \in Sessions :
        /\ message[s] = "error" /\ pc[s] = "rendered" /\ user_role[s] = "select"
        /\ admin_taken[s]
        /\ get_roles(roles)[1] # None

\* C26: admin and editor are different sessions: whenever admin_session and
\* editor_session are both set they hold different session identities, in the
\* password-gated variant also after a Logout followed by another login from the
\* same session.
C26_AdminEditorDistinct ==
    (get_roles(roles)[1] # None /\ get_roles(roles)[2] # None) =>
        get_roles(roles)[1] # get_roles(roles)[2]

\* C27: the cached role agrees with the store: in the password-gated variant,
\* whenever a session renders the admin screen the persisted admin_session is that
\* session's identity, and whenever it renders the editor screen the persisted
\* editor_session is its identity, under any interleaving of other sessions' logins
\* and logouts.
C27_CachedRoleAgrees ==
    \A s \in Sessions :
        pc[s] = "rendered" =>
            /\ user_role[s] = "admin" => get_roles(roles)[1] = s
            /\ user_role[s] = "editor" => get_roles(roles)[2] = s

--------------------------------------------------------------------------
(* The donors table under arbitrary callers: any session may call any      *)
(* store function with any arguments at any time.                          *)

\* The status of the row with the given id as a call meets it: {} when there is no such row
Prior(D, id) ==
    {d.status : d \in {x \in D : x.id = id}}

\* add_donor_pending(image_bytes, extracted_data) -> donor_id
AddDonorPending ==
    /\ seq < MaxId
    /\ \E img \in Images, n \in Names, a \in Amounts :
          /\ donors' = add_donor_pending(donors, seq + 1, now, img, [name |-> n, amount |-> a])
          /\ lastCall' = [op |-> "add_donor_pending", donor_id |-> seq + 1,
                          name |-> n, amount |-> a, prior |-> {}]
    /\ seq' = seq + 1
    /\ outcome' = "returned"
    /\ UNCHANGED <<roles, now, sessionVars, loginVars, appVars>>

\* Ids a caller may hold: of rows inserted so far (deleted since or not) and the next, never used
DonorIds == 1..(IF seq < MaxId THEN seq + 1 ELSE MaxId)

\* update_donor(donor_id, name, amount): returns None whether or not a row matched
UpdateDonor ==
    /\ \E id \in DonorIds, n \in Names, a \in Amounts :
          /\ donors' = update_donor(donors, id, n, a)
          /\ lastCall' = [op |-> "update_donor", donor_id |-> id, name |-> n, amount |-> a,
                          prior |-> Prior(donors, id)]
    /\ outcome' = "returned"
    /\ UNCHANGED <<roles, seq, now, sessionVars, loginVars, appVars>>

\* clear_all_donors()
ClearAllDonors ==
    /\ donors' = clear_all_donors(donors)
    /\ lastCall' = [op |-> "clear_all_donors", donor_id |-> 0, name |-> "", amount |-> "",
                    prior |-> {d.status : d \in donors}]
    /\ outcome' = "returned"
    /\ UNCHANGED <<roles, seq, now, sessionVars, loginVars, appVars>>

\* A second passes
Tick ==
    /\ now < MaxTime
    /\ now' = now + 1
    /\ UNCHANGED <<roles, donors, seq, sessionVars, loginVars, callVars, appVars>>

NextStore ==
    \/ AddDonorPending
    \/ UpdateDonor
    \/ ClearAllDonors
    \/ Tick

SpecStore == Init /\ [][NextStore]_vars

\* The rows of table D with the given status
WithStatus(D, st) == {d \in D : d.status = st}

\* C7: confirm moves a record from pending to confirmed: after update_donor(id, n, a)
\* on an existing id the record is in get_confirmed_donors() with full_name = n and
\* amount = a, and no longer in get_pending_donors().
C7_ConfirmMovesRecord ==
    (lastCall.op = "update_donor" /\ lastCall.prior # {}) =>
        /\ \A r \in get_confirmed_donors(donors) :
              \E i \in 1..Len(r) :
                  /\ r[i].id = lastCall.donor_id
                  /\ r[i].full_name = lastCall.name
                  /\ r[i].amount = lastCall.amount
        /\ \A r \in get_pending_donors(donors) :
              \A i \in 1..Len(r) : r[i].id # lastCall.donor_id

\* C7 witness: a pending record was just confirmed as "Anon" / "20", another is still pending
C7_Witness ==
    /\ lastCall.op = "update_donor"
    /\ lastCall.prior = {"pending"}
    /\ lastCall.name = "Anon" /\ lastCall.amount = "20"
    /\ WithStatus(donors, "pending") # {}

\* C8: get_pending_donors() returns exactly the records whose status is 'pending', each
\* once, in non-decreasing timestamp order, so pending[0] is an oldest pending record.
C8_PendingQueueOrder ==
    \A r \in get_pending_donors(donors) :
        /\ {r[i].id : i \in 1..Len(r)} = {d.id : d \in WithStatus(donors, "pending")}
        /\ Len(r) = Cardinality(WithStatus(donors, "pending"))
        /\ \A i \in 1..Len(r) :
              \E d \in WithStatus(donors, "pending") :
                  /\ d.id = r[i].id /\ d.full_name = r[i].full_name /\ d.amount = r[i].amount
                  /\ d.image_data = r[i].image_data /\ d.timestamp = r[i].timestamp
        /\ \A i, j \in 1..Len(r) : i <= j => r[i].timestamp <= r[j].timestamp
        /\ \A d \in WithStatus(donors, "pending") : Len(r) > 0 /\ r[1].timestamp <= d.timestamp

\* C8 witness: pending records of different ages beside a confirmed one that is older
C8_Witness ==
    /\ \E d, e \in WithStatus(donors, "pending") : d.timestamp < e.timestamp
    /\ \E c \in WithStatus(donors, "confirmed") :
          \A d \in WithStatus(donors, "pending") : c.timestamp <= d.timestamp

\* C9: confirm is repeatable, last write wins: update_donor on an already confirmed id
\* raises no error and leaves the record confirmed with the second call's name and amount.
C9_ConfirmLastWriteWins ==
    (lastCall.op = "update_donor" /\ lastCall.prior = {"confirmed"}) =>
        /\ outcome = "returned"
        /\ \E d \in donors :
              /\ d.id = lastCall.donor_id
              /\ d.status = "confirmed"
              /\ d.full_name = lastCall.name
              /\ d.amount = lastCall.amount
        /\ Cardinality({d \in donors : d.id = lastCall.donor_id}) = 1

\* C9 witness: an already confirmed record was confirmed once more
C9_Witness ==
    /\ lastCall.op = "update_donor"
    /\ lastCall.prior = {"confirmed"}
    /\ \E d \in donors : d.id = lastCall.donor_id /\ d.full_name = "" /\ d.amount = "20"

\* C10: update_donor(id, n, a) for an id that is not in the donors table reports a
\* NotFound outcome to the caller and leaves the store unchanged.
C10_MissingIdNotFound ==
    [][ (lastCall' # lastCall /\ lastCall'.op = "update_donor" /\ lastCall'.prior = {}) =>
            (outcome' = "NotFound" /\ donors' = donors) ]_vars

\* C11: status is monotonic: a record is created with status 'pending', and in every
\* step of any sequence of store calls a record's status stays as it is or goes from
\* 'pending' to 'confirmed'; it never leaves 'confirmed' and takes no third value.
C11_StatusMonotonic ==
    [][ /\ \A e \in donors' :
              IF \E d \in donors : d.id = e.id
              THEN \A d \in donors :
                      d.id = e.id =>
                          \/ e.status = d.status
                          \/ (d.status = "pending" /\ e.status = "confirmed")
              ELSE e.status = "pending"
        /\ \A e \in donors' : e.status \in {"pending", "confirmed"} ]_vars

\* C11 witness: a confirmed record met a further update_donor and is confirmed still,
\* while a record added later is pending
C11_Witness ==
    /\ lastCall.op = "update_donor"
    /\ lastCall.prior = {"confirmed"}
    /\ \E d \in WithStatus(donors, "confirmed") : d.id = lastCall.donor_id
    /\ \E e \in WithStatus(donors, "pending") : e.id > lastCall.donor_id

\* The writers of the donors table called by anyone with any arguments in any order,
\* with the clock at rest (no query result depends on it but by ORDER BY)
NextCalls ==
    \/ AddDonorPending
    \/ UpdateDonor
    \/ ClearAllDonors

SpecCalls == Init /\ [][NextCalls]_vars

\* What the two queries let a reader see of the records: id, name and amount of the
\* rows each SELECT takes (WHERE status = "pending" / "confirmed"; the ORDER BY
\* changes no row), with the status of the query the row came from
Visible(D) ==
    { [id |-> d.id, full_name |-> d.full_name, amount |-> d.amount, status |-> "pending"]
      : d \in { x \in D : x.status = "pending" } }
    \cup
    { [id |-> d.id, full_name |-> d.full_name, amount |-> d.amount, status |-> "confirmed"]
      : d \in { x \in D : x.status = "confirmed" } }

--------------------------------------------------------------------------
(* Both tables under arbitrary callers: the store functions of login.py,   *)
(* each called by any session with any arguments at any time.              *)

\* set_role(role_type, session_id)
SetRole ==
    /\ \E role_type \in {"admin", "editor"}, s \in Sessions :
          /\ roles' = set_role(roles, role_type, s)
          /\ lastCall' = [op |-> "set_role", donor_id |-> 0, name |-> role_type, amount |-> "",
                          prior |-> IF roles = {} THEN {} ELSE {"row"}]
    /\ outcome' = "returned"
    /\ UNCHANGED <<storeVars, sessionVars, loginVars, appVars>>

\* clear_all_sessions()
ClearAllSessions ==
    /\ roles' = clear_all_sessions(roles)
    /\ lastCall' = [op |-> "clear_all_sessions", donor_id |-> 0, name |-> "", amount |-> "",
                    prior |-> IF roles = {} THEN {} ELSE {"row"}]
    /\ outcome' = "returned"
    /\ UNCHANGED <<storeVars, sessionVars, loginVars, appVars>>

\* add_donor_pending(image_bytes, processed) of a form the agents read nothing from
UploadBlankForm ==
    /\ AddDonorPending
    /\ lastCall'.name = "" /\ lastCall'.amount = ""

\* update_donor(donor_id, "Anon", "20") on a record there is
ConfirmAsAnon ==
    /\ UpdateDonor
    /\ lastCall'.name = "Anon" /\ lastCall'.amount = "20"
    /\ lastCall'.prior # {}

NextTables ==
    \/ UploadBlankForm
    \/ ConfirmAsAnon
    \/ ClearAllDonors
    \/ SetRole
    \/ ClearAllSessions
    \/ Tick

SpecTables == Init /\ [][NextTables]_vars

\* C12: clear_all_donors and clear_all_sessions are independent: clear_all_donors()
\* leaves get_pending_donors() and get_confirmed_donors() empty and the roles row as
\* it was; clear_all_sessions() empties the role assignment and leaves every donor
\* record as it was.
C12_ClearsIndependent ==
    [][ /\ (lastCall' # lastCall /\ lastCall'.op = "clear_all_donors") =>
              /\ get_pending_donors(donors') = {<<>>}
              /\ get_confirmed_donors(donors') = {<<>>}
              /\ get_roles(roles') = get_roles(roles)
        /\ (lastCall' # lastCall /\ lastCall'.op = "clear_all_sessions") =>
              /\ get_roles(roles') = <<None, None>>
              /\ donors' = donors ]_vars

\* C12 witness: clear_all_donors() met pending and confirmed records while an admin
\* and an editor are recorded, and the roles row still names both
C12_Witness ==
    /\ lastCall.op = "clear_all_donors"
    /\ lastCall.prior = {"pending", "confirmed"}
    /\ get_roles(roles)[1] # None /\ get_roles(roles)[2] # None

\* C24: confirm touches only the target's editable fields: update_donor(id, n, a)
\* leaves the target's image_data, timestamp and id, every other donor record and
\* the roles row unchanged; and no store call ever changes the image or the
\* creation timestamp of a record that stays in the table.
C24_ConfirmFrame ==
    [][ /\ (lastCall' # lastCall /\ lastCall'.op = "update_donor") =>
              /\ roles' = roles
              /\ {d.id : d \in donors'} = {d.id : d \in donors}
              /\ Cardinality(donors') = Cardinality(donors)
              /\ \A d \in donors : d.id # lastCall'.donor_id => d \in donors'
        /\ \A d \in donors, e \in donors' :
              e.id = d.id => (e.image_data = d.image_data /\ e.timestamp = d.timestamp) ]_vars

\* C24 witness: a record created a second ago was just confirmed as "Anon" / "20"
\* while another record is pending with other contents and both roles are taken
C24_Witness ==
    /\ lastCall.op = "update_donor"
    /\ lastCall.prior = {"pending"}
    /\ \E d \in donors : d.id = lastCall.donor_id /\ d.timestamp < now /\ d.full_name = "Anon"
    /\ \E e \in donors : e.id # lastCall.donor_id /\ e.status = "pending" /\ e.full_name = ""
    /\ get_roles(roles)[1] # None /\ get_roles(roles)[2] # None


--------------------------------------------------------------------------
(* login.py as an event runs: the role selection screen together with the  *)
(* donor upload screen, the editor's confirmation and the admin's          *)
(* 'Thank you' / 'Start New Event' buttons.  A button press reruns the     *)
(* script; the handler acts on what that run reads from the store.         *)

\* Photos the donors take during an event
MaxUploads == 1

\* Donor screen: a photo is taken, the agents return name and amount, and
\* add_donor_pending(image_bytes, processed) stores them
DonorUpload(s) ==
    /\ pc[s] = "rendered" /\ user_role[s] = "donor"
    /\ seq < MaxUploads
    /\ \E img \in Images, n \in Names, a \in Amounts :
          donors' = add_donor_pending(donors, seq + 1, now, img, [name |-> n, amount |-> a])
    /\ seq' = seq + 1
    /\ UNCHANGED <<roles, now, sessionVars, loginVars, callVars, appVars>>

\* Editor screen: 'Confirm Donation' is pressed and the script runs again
EditorConfirm(s) ==
    /\ pc[s] = "rendered" /\ user_role[s] = "editor"
    /\ pc' = [pc EXCEPT ![s] = "get_pending_donors"]
    /\ UNCHANGED <<roles, storeVars, admin_session, editor_session, user_role, loginVars,
                   callVars, appVars>>

\* pending = get_pending_donors(); donor = pending[0]: without a pending record the
\* page has no Confirm button and the run ends
EditorGetPending(s) ==
    /\ pc[s] = "get_pending_donors"
    /\ \E pending \in get_pending_donors(donors) :
          IF pending # <<>>
          THEN /\ editor_donor_id' = [editor_donor_id EXCEPT ![s] = pending[1].id]
               /\ pc' = [pc EXCEPT ![s] = "update_donor"]
          ELSE /\ pc' = [pc EXCEPT ![s] = "rendered"]
               /\ UNCHANGED editor_donor_id
    /\ UNCHANGED <<roles, storeVars, admin_session, editor_session, user_role, loginVars,
                   callVars, event_stopped, uploadVars, lockVars, screenVars>>

\* update_donor(donor_id, edited_name, edited_amount); st.rerun()
EditorUpdateDonor(s) ==
    /\ pc[s] = "update_donor"
    /\ \E edited_name \in Names, edited_amount \in Amounts :
          donors' = update_donor(donors, editor_donor_id[s], edited_name, edited_amount)
    /\ editor_donor_id' = [editor_donor_id EXCEPT ![s] = 0]
    /\ pc' = [pc EXCEPT ![s] = "rendered"]
    /\ UNCHANGED <<roles, seq, now, admin_session, editor_session, user_role, loginVars,
                   callVars, event_stopped, uploadVars, lockVars, screenVars>>

\* Admin screen: 'Thank you' sets event_stopped and reruns into the final report
AdminStopEvent(s) ==
    /\ pc[s] = "rendered" /\ user_role[s] = "admin"
    /\ ~event_stopped[s]
    /\ event_stopped' = [event_stopped EXCEPT ![s] = TRUE]
    /\ UNCHANGED <<roles, storeVars, sessionVars, loginVars, callVars, editor_donor_id, uploadVars,
                   lockVars, screenVars>>

\* Final report: 'Start New Event' is pressed and the script runs again
AdminStartNewEvent(s) ==
    /\ pc[s] = "rendered" /\ user_role[s] = "admin"
    /\ event_stopped[s]
    /\ pc' = [pc EXCEPT ![s] = "get_confirmed_donors"]
    /\ UNCHANGED <<roles, storeVars, admin_session, editor_session, user_role, loginVars,
                   callVars, appVars>>

\* donors = get_confirmed_donors(): with confirmed donations the button under the
\* report goes on to clear_all_donors(); the button under 'No donations recorded.'
\* only resets event_stopped
AdminFinalReport(s) ==
    /\ pc[s] = "get_confirmed_donors"
    /\ \E confirmed \in get_confirmed_donors(donors) :
          IF confirmed # <<>>
          THEN /\ pc' = [pc EXCEPT ![s] = "clear_all_donors"]
               /\ UNCHANGED event_stopped
          ELSE /\ event_stopped' = [event_stopped EXCEPT ![s] = FALSE]
               /\ pc' = [pc EXCEPT ![s] = "rendered"]
    /\ UNCHANGED <<roles, storeVars, admin_session, editor_session, user_role, loginVars,
                   callVars, editor_donor_id, uploadVars, lockVars, screenVars>>

\* clear_all_donors(); event_stopped = False; st.rerun()
AdminClearAllDonors(s) ==
    /\ pc[s] = "clear_all_donors"
    /\ donors' = clear_all_donors(donors)
    /\ event_stopped' = [event_stopped EXCEPT ![s] = FALSE]
    /\ pc' = [pc EXCEPT ![s] = "rendered"]
    /\ UNCHANGED <<roles, seq, now, admin_session, editor_session, user_role, loginVars,
                   callVars, editor_donor_id, uploadVars, lockVars, screenVars>>

NextEvent ==
    \E s \in Sessions :
        \/ LoginConnect(s)
        \/ LoginGetRoles(s)
        \/ LoginClick(s)
        \/ LoginSelect(s)
        \/ LoginClearSessions(s)
        \/ LoginSetAdmin(s)
        \/ LoginSetEditor(s)
        \/ LoginLogout(s)
        \/ DonorUpload(s)
        \/ EditorConfirm(s)
        \/ EditorGetPending(s)
        \/ EditorUpdateDonor(s)
        \/ AdminStopEvent(s)
        \/ AdminStartNewEvent(s)
        \/ AdminFinalReport(s)
        \/ AdminClearAllDonors(s)

SpecEvent == Init /\ [][NextEvent]_vars

\* Slot i of the roles row (1 admin_session, 2 editor_session) is cleared in this step
RoleCleared(i) == get_roles(roles)[i] # None /\ get_roles(roles')[i] = None

\* The 'Start New Event' handler of some session completes in this step
StartNewEventDone ==
    \E s \in Sessions :
        /\ pc[s] \in {"get_confirmed_donors", "clear_all_donors"}
        /\ pc'[s] = "rendered"

\* C13: the new-event reset is the only thing that clears roles, and it clears
\* everything: admin_session and editor_session are cleared only together and only
\* by the 'Start New Event' action, and after that action no donation record,
\* pending or confirmed, remains in the store.
C13_ResetClearsAll ==
    [][ /\ (RoleCleared(1) \/ RoleCleared(2)) =>
              (get_roles(roles') = <<None, None>> /\ StartNewEventDone)
        /\ StartNewEventDone => donors' = {} ]_vars


--------------------------------------------------------------------------
(* Admin dashboard arithmetic (2agents.py; the same lines in login.py,     *)
(* pot.py, 2agents_display.py).  Money is counted in hundredths, so that   *)
(* float() of a text with at most two decimals and the sums of such values *)
(* are exact; the page prints total with two decimals.                     *)

\* Decimal digits and their values
Digits == {"0", "1", "2", "3", "4", "5", "6", "7", "8", "9"}

DigitValue(c) ==
    CASE c = "0" -> 0 [] c = "1" -> 1 [] c = "2" -> 2 [] c = "3" -> 3 [] c = "4" -> 4
      [] c = "5" -> 5 [] c = "6" -> 6 [] c = "7" -> 7 [] c = "8" -> 8 [] c = "9" -> 9

\* str.isdigit() on a non-empty text of the alphabet; "" is not
RECURSIVE IsDigits(_)
IsDigits(str) ==
    IF Len(str) = 0 THEN TRUE ELSE Head(str) \in Digits /\ IsDigits(Tail(str))

\* Value of a run of decimal digits, 0 for the empty run
RECURSIVE DigitsValue(_, _)
DigitsValue(str, acc) ==
    IF Len(str) = 0 THEN acc ELSE DigitsValue(Tail(str), 10 * acc + DigitValue(Head(str)))

\* Position of the first "." of the text, 0 without one
RECURSIVE Find(_, _, _)
Find(str, c, i) ==
    IF Len(str) = 0 THEN 0
    ELSE IF Head(str) = c THEN i
    ELSE Find(Tail(str), c, i + 1)

\* float(amount_str) on texts of signs, digits, "." and other characters without
\* whitespace, exponent, underscore, inf or nan: ok = FALSE is ValueError; value is in
\* hundredths and takes a fraction of up to two digits
float(amount_str) ==
    LET signed == Len(amount_str) > 0 /\ Head(amount_str) \in {"-", "+"}
        sign == IF signed /\ Head(amount_str) = "-" THEN -1 ELSE 1
        body == IF signed THEN Tail(amount_str) ELSE amount_str
        dot == Find(body, ".", 1)
        whole == IF dot = 0 THEN body ELSE SubSeq(body, 1, dot - 1)
        frac == IF dot = 0 THEN "" ELSE SubSeq(body, dot + 1, Len(body))
        ok == /\ IsDigits(whole) /\ IsDigits(frac)
              /\ Len(whole) + Len(frac) > 0
              /\ Len(frac) <= 2
    IN  IF ~ok THEN [ok |-> FALSE, value |-> 0]
        ELSE [ok |-> TRUE,
              value |-> sign * (100 * DigitsValue(whole, 0)
                                + (IF Len(frac) = 1 THEN 10 ELSE 1) * DigitsValue(frac, 0))]

\* total = 0; for donor in donors: try: total += float(amount_str) if amount_str else 0
\* except: pass
RECURSIVE Total(_)
Total(donor_rows) ==
    IF donor_rows = <<>> THEN 0
    ELSE LET amount_str == Head(donor_rows).amount
         IN  (IF amount_str # "" /\ float(amount_str).ok THEN float(amount_str).value ELSE 0)
                 + Total(Tail(donor_rows))

\* GOAL = 2000.0, and in hundredths
GOAL == 2000
GoalHundredths == 100 * GOAL

Min(a, b) == IF a <= b THEN a ELSE b

\* Mutant: the percentage is not capped
Progress_Uncapped(total) == (100 * total) \div 100

\* progress_percentage = min((total / GOAL) * 100, 100); st.progress(progress_percentage / 100):
\* the fraction handed to st.progress, counted in units of 1 / GoalHundredths
Progress(total) == Min(100 * total, 100 * GoalHundredths) \div 100


\* Amount texts the agents read off a form, and texts an editor types into the
\* Amount field before confirming
FormAmounts == {"", "10"}
TypedAmounts == {"", "10", "abc", "5.50", "-5", "2000"}

\* Upload screen: add_donor_pending(image_bytes, processed)
SubmitForm ==
    /\ seq < MaxId
    /\ \E img \in Images, a \in FormAmounts :
          /\ donors' = add_donor_pending(donors, seq + 1, now, img, [name |-> "", amount |-> a])
          /\ lastCall' = [op |-> "add_donor_pending", donor_id |-> seq + 1,
                          name |-> "", amount |-> a, prior |-> {}]
    /\ seq' = seq + 1
    /\ outcome' = "returned"
    /\ UNCHANGED <<roles, now, sessionVars, loginVars, appVars>>

\* Editor screen: update_donor(donor_id, edited_name, edited_amount) on a record there is
ConfirmTyped ==
    /\ \E d \in donors, a \in TypedAmounts :
          /\ donors' = update_donor(donors, d.id, "Anon", a)
          /\ lastCall' = [op |-> "update_donor", donor_id |-> d.id, name |-> "Anon",
                          amount |-> a, prior |-> {d.status}]
    /\ outcome' = "returned"
    /\ UNCHANGED <<roles, seq, now, sessionVars, loginVars, appVars>>

\* Admin screen: donors = get_confirmed_donors(), total, progress_percentage and the
\* metrics of one rendering of the dashboard
AdminDashboard ==
    /\ \E confirmed \in get_confirmed_donors(donors) :
          outcome' = [total |-> Total(confirmed),
                      count |-> Len(confirmed),
                      progress |-> Progress(Total(confirmed))]
    /\ lastCall' = [op |-> "dashboard", donor_id |-> 0, name |-> "", amount |-> "",
                    prior |-> {d.status : d \in donors}]
    /\ UNCHANGED <<roles, storeVars, sessionVars, loginVars, appVars>>

NextDashboard ==
    \/ SubmitForm
    \/ ConfirmTyped
    \/ ClearAllDonors
    \/ AdminDashboard

SpecDashboard == Init /\ [][NextDashboard]_vars

\* What a record's amount is worth by the claim: its number when the text parses as
\* a non-negative number, 0 otherwise
WorthOf(amount_str) ==
    IF amount_str # "" /\ float(amount_str).ok /\ float(amount_str).value >= 0
    THEN float(amount_str).value
    ELSE 0

RECURSIVE SumOfWorth(_)
SumOfWorth(S) ==
    IF S = {} THEN 0
    ELSE LET d == CHOOSE x \in S : TRUE
         IN  WorthOf(d.amount) + SumOfWorth(S \ {d})

\* C14: totalRaised: the dashboard total equals the sum of the amounts of the
\* confirmed records only, where a record whose amount text does not parse as a
\* non-negative number (empty, non-numeric or negative) contributes 0.
C14_TotalRaised ==
    lastCall.op = "dashboard" =>
        outcome.total = SumOfWorth(WithStatus(donors, "confirmed"))

--------------------------------------------------------------------------
(* Live donor wall of the admin dashboard (2agents_display.py, login.py) *)

\* latest_donor = donors[0]
latest_donor(confirmed) == confirmed[1]

--------------------------------------------------------------------------
(* Parsing the agent's response text into name and amount:                 *)
(* extract_with_vision_agent / process_with_data_agent.  2agents.py and    *)
(* 2agents_display.py keep the digits and points of the value (variant     *)
(* "filter"); login.py and pot.py take the first match of \d+\.?\d*        *)
(* (variant "regex").  A text is a string, read with Head, Tail, SubSeq.   *)

\* str.strip() / str.lower() on texts of ASCII letters, digits, blanks and punctuation
Whitespace == {" ", "\t", "\n", "\r"}
UpperCase == "ABCDEFGHIJKLMNOPQRSTUVWXYZ"
LowerCase == "abcdefghijklmnopqrstuvwxyz"

RECURSIVE lstrip(_)
lstrip(str) ==
    IF Len(str) > 0 /\ Head(str) \in Whitespace THEN lstrip(Tail(str)) ELSE str

RECURSIVE rstrip(_)
rstrip(str) ==
    IF Len(str) > 0 /\ SubSeq(str, Len(str), Len(str)) \in Whitespace
    THEN rstrip(SubSeq(str, 1, Len(str) - 1))
    ELSE str

strip(str) == rstrip(lstrip(str))

RECURSIVE lower(_)
lower(str) ==
    IF Len(str) = 0 THEN ""
    ELSE LET i == Find(UpperCase, Head(str), 1)
         IN  (IF i > 0 THEN SubSeq(LowerCase, i, i) ELSE Head(str)) \o lower(Tail(str))

\* sub in str
RECURSIVE Contains(_, _)
Contains(str, sub) ==
    IF Len(str) < Len(sub) THEN FALSE
    ELSE SubSeq(str, 1, Len(sub)) = sub \/ Contains(Tail(str), sub)

\* content.split('\n')
RECURSIVE split(_, _)
split(content, sep) ==
    LET i == Find(content, sep, 1)
    IN  IF i = 0 THEN <<content>>
        ELSE <<SubSeq(content, 1, i - 1)>> \o split(SubSeq(content, i + 1, Len(content)), sep)

\* ''.join(filter(lambda x: x.isdigit() or x == '.', value))
RECURSIVE FilterDigitsAndPoints(_)
FilterDigitsAndPoints(value) ==
    IF Len(value) = 0 THEN ""
    ELSE (IF Head(value) \in Digits \/ Head(value) = "." THEN Head(value) ELSE "")
             \o FilterDigitsAndPoints(Tail(value))

\* The longest run of digits the text starts with
RECURSIVE LeadingDigits(_)
LeadingDigits(str) ==
    IF Len(str) > 0 /\ Head(str) \in Digits
    THEN Head(str) \o LeadingDigits(Tail(str))
    ELSE ""

\* re.findall(r'\d+\.?\d*', value): numbers[0] if numbers, "" for an empty list
RECURSIVE FirstNumber(_)
FirstNumber(value) ==
    IF Len(value) = 0 THEN ""
    ELSE IF Head(value) \notin Digits THEN FirstNumber(Tail(value))
    ELSE LET whole == LeadingDigits(value)
             rest == SubSeq(value, Len(whole) + 1, Len(value))
         IN  IF Len(rest) > 0 /\ Head(rest) = "."
             THEN whole \o "." \o LeadingDigits(Tail(rest))
             ELSE whole

\* One pass of the for loop: a line with ':' is split at the first ':', the key
\* stripped and lowered, the value stripped and stored under name or amount
ParseLine(variant, data, line) ==
    LET i == Find(line, ":", 1)
        key == lower(strip(SubSeq(line, 1, i - 1)))
        value == strip(SubSeq(line, i + 1, Len(line)))
    IN  IF i = 0 THEN data
        ELSE IF Contains(key, "name") THEN [data EXCEPT !.name = value]
        ELSE IF Contains(key, "amount")
             THEN IF variant = "filter"
                  THEN [data EXCEPT !.amount = FilterDigitsAndPoints(value)]
                  ELSE IF FirstNumber(value) # ""
                       THEN [data EXCEPT !.amount = FirstNumber(value)]
                       ELSE data
        ELSE data

\* data = {'name': '', 'amount': ''}; for line in content.split('\n'): ...; return data
RECURSIVE ParseLines(_, _, _)
ParseLines(variant, data, lines) ==
    IF lines = <<>> THEN data
    ELSE ParseLines(variant, ParseLine(variant, data, Head(lines)), Tail(lines))

ParseResponse(variant, content) ==
    ParseLines(variant, [name |-> "", amount |-> ""], split(content, "\n"))

\* Lines an agent may answer with, and the answers of up to MaxLines lines, each
\* line ended by a newline
MaxLines == 2
ResponseLines ==
    {"Name: Jane Doe", "Amount: $1,234.50 USD", "Amount: 1.2.3", "Amount: v1.0: 12.50",
     "AMOUNT : 20", "Jane Doe 20", "Total: 5"}

RECURSIVE Responses(_)
Responses(n) ==
    IF n = 0 THEN {""}
    ELSE Responses(n - 1) \cup { line \o "\n" \o r : line \in ResponseLines, r \in Responses(n - 1) }

\* response = vision_agent.run(prompt): the agent answers
AgentResponds ==
    /\ parser.stage \in {"idle", "parsed"}
    /\ \E variant \in {"filter", "regex"}, content \in Responses(MaxLines) :
          parser' = [stage |-> "response", variant |-> variant, content |-> content,
                     data |-> [name |-> "", amount |-> ""]]
    /\ UNCHANGED <<roles, storeVars, sessionVars, loginVars, callVars, event_stopped,
                   editor_donor_id, photo, scenario, lockVars, screenVars>>

\* The response is parsed and data returned
AgentParsed ==
    /\ parser.stage = "response"
    /\ parser' = [parser EXCEPT !.stage = "parsed",
                                !.data = ParseResponse(parser.variant, parser.content)]
    /\ UNCHANGED <<roles, storeVars, sessionVars, loginVars, callVars, event_stopped,
                   editor_donor_id, photo, scenario, lockVars, screenVars>>

NextParse ==
    \/ AgentResponds
    \/ AgentParsed

SpecParse == Init /\ [][NextParse]_vars

\* The number of points in a text
RECURSIVE CountOf(_, _)
CountOf(str, c) ==
    IF Len(str) = 0 THEN 0
    ELSE (IF Head(str) = c THEN 1 ELSE 0) + CountOf(Tail(str), c)

\* C17: parsing "Name: Jane Doe\nAmount: $1,234.50 USD\n" yields name "Jane Doe" and
\* amount "1234.50" in every variant of the parser, the character filter and the
\* regular expression.
C17_ParsingExample ==
    (parser.stage = "parsed" /\ parser.content = "Name: Jane Doe\nAmount: $1,234.50 USD\n") =>
        parser.data = [name |-> "Jane Doe", amount |-> "1234.50"]

\* The lines of a text that carry a colon, and whether one of them has an amount key
RECURSIVE LinesWithColon(_)
LinesWithColon(lines) ==
    IF lines = <<>> THEN <<>>
    ELSE (IF Find(Head(lines), ":", 1) > 0 THEN <<Head(lines)>> ELSE <<>>)
             \o LinesWithColon(Tail(lines))

HasAmountKey(lines) ==
    \E k \in 1..Len(lines) :
        LET i == Find(lines[k], ":", 1)
            key == lower(strip(SubSeq(lines[k], 1, i - 1)))
        IN  i > 0 /\ ~Contains(key, "name") /\ Contains(key, "amount")

\* C18: for every response text the parsed amount consists of digits and at most one
\* decimal point; a line without a colon is ignored; and when no line has an
\* amount-like key the amount is the empty string.
C18_AmountShape ==
    parser.stage = "parsed" =>
        /\ FilterDigitsAndPoints(parser.data.amount) = parser.data.amount
        /\ CountOf(parser.data.amount, ".") <= 1
        /\ parser.data = ParseLines(parser.variant, [name |-> "", amount |-> ""],
                                    LinesWithColon(split(parser.content, "\n")))
        /\ ~HasAmountKey(split(parser.content, "\n")) => parser.data.amount = ""


(***************************************************************************)
(* The whole script of 2agents.py: role determination followed, in the     *)
(* same run, by the screen of the role.  A step is one run's part up to    *)
(* and including a call of the store.  Button presses and photos are       *)
(* widget values: they start a run, and the photo of st.camera_input stays *)
(* set over st.rerun() until the user clears it or takes another.          *)
(***************************************************************************)

\* The sessions of the end-to-end scenario, by the order of their first run
SessionA == 1
SessionB == 2
SessionC == 3

\* Stages of the scenario: 0 nobody evaluated, 1..3 A, B, C evaluated in this order one
\* after the other, 4 C submitted the empty form, 5 B confirmed it as Anon / 20,
\* 6 A's dashboard refreshed; Off when a user acted outside the scenario
Off == 7

\* A step the script takes by itself (timers, st.rerun) keeps the stage
Automatic == IF scenario = 6 THEN Off ELSE scenario

\* Photos a donor can take, and the records the upload screen stores in all
AppImages == {"img1", "img2"}
MaxSubmits == 2

\* admin_session, editor_session = get_roles() and the if/elif chain with its set_role
\* call, taken as one step here (Spec has the interleavings of the two calls); the
\* run goes on into the role's screen
AppDetermineRole(s) ==
    /\ pc[s] = "get_roles"
    /\ LET d == RoleDecision(s, get_roles(roles)[1], get_roles(roles)[2])
       IN  /\ roles' = IF d.write = "none" THEN roles ELSE set_role(roles, d.write, s)
           /\ user_role' = [user_role EXCEPT ![s] = d.role]
    /\ pc' = [pc EXCEPT ![s] = "screen"]
    /\ scenario' = IF user_role[s] # "unset" THEN Automatic
                   ELSE IF scenario = s - 1 /\ s <= SessionC
                           /\ \A t \in Sessions : t > s => pc[t] = "absent"
                        THEN s
                        ELSE Off
    /\ UNCHANGED <<storeVars, admin_session, editor_session, loginVars, callVars,
                   event_stopped, editor_donor_id, parser, photo,
                   lockVars, screenVars>>

\* A button of the screen is pressed: the script runs again with the button set
AppClick(s, button) ==
    /\ pc[s] = "rendered"
    /\ \/ button = "clear_all" /\ user_role[s] = "admin"
       \/ button = "confirm" /\ user_role[s] = "editor" /\ editor_donor_id[s] # 0
    /\ clicked' = [clicked EXCEPT ![s] = button]
    /\ pc' = [pc EXCEPT ![s] = "get_roles"]
    /\ scenario' = IF button = "confirm" /\ scenario = 4 /\ s = SessionB THEN 4 ELSE Off
    /\ UNCHANGED <<roles, storeVars, admin_session, editor_session, user_role, admin_taken,
                   editor_taken, pass_input, message, callVars, event_stopped,
                   editor_donor_id, parser, photo, lockVars, screenVars>>

\* Admin screen, 'Clear All' pressed: clear_all_donors(); st.rerun()
AppClearAll(s) ==
    /\ pc[s] = "screen" /\ user_role[s] = "admin" /\ clicked[s] = "clear_all"
    /\ donors' = clear_all_donors(donors)
    /\ clicked' = [clicked EXCEPT ![s] = "none"]
    /\ pc' = [pc EXCEPT ![s] = "get_roles"]
    /\ scenario' = Off
    /\ UNCHANGED <<roles, seq, now, admin_session, editor_session, user_role, admin_taken,
                   editor_taken, pass_input, message, callVars, event_stopped,
                   editor_donor_id, parser, photo, lockVars, screenVars>>

\* Admin screen: donors = get_confirmed_donors(), the total, the progress bar and the
\* metrics; the auto-refresh then sleeps before st.rerun()
AppAdminDashboard(s) ==
    /\ pc[s] = "screen" /\ user_role[s] = "admin" /\ clicked[s] # "clear_all"
    /\ \E confirmed \in get_confirmed_donors(donors) :
          outcome' = [total |-> Total(confirmed),
                      count |-> Len(confirmed),
                      progress |-> Progress(Total(confirmed))]
    /\ clicked' = [clicked EXCEPT ![s] = "none"]
    /\ pc' = [pc EXCEPT ![s] = "rendered"]
    /\ scenario' = IF scenario = 5 /\ s = SessionA THEN 6 ELSE Automatic
    /\ UNCHANGED <<roles, storeVars, admin_session, editor_session, user_role, admin_taken,
                   editor_taken, pass_input, message, lastCall, event_stopped,
                   editor_donor_id, parser, photo, lockVars, screenVars>>

\* Editor screen: pending = get_pending_donors(); the first pending record is shown in
\* the form, or the notice that nothing is pending
AppEditorShow(s) ==
    /\ pc[s] = "screen" /\ user_role[s] = "editor"
    /\ \E pending \in get_pending_donors(donors) :
          /\ clicked[s] # "confirm" \/ pending = <<>>
          /\ editor_donor_id' = [editor_donor_id EXCEPT
                                   ![s] = IF pending = <<>> THEN 0 ELSE pending[1].id]
    /\ clicked' = [clicked EXCEPT ![s] = "none"]
    /\ pc' = [pc EXCEPT ![s] = "rendered"]
    /\ scenario' = Automatic
    /\ UNCHANGED <<roles, storeVars, admin_session, editor_session, user_role, admin_taken,
                   editor_taken, pass_input, message, callVars, event_stopped, parser, photo,
                   lockVars, screenVars>>

\* Editor screen, 'Confirm Donation' pressed: update_donor(donor_id, edited_name,
\* edited_amount) on the first record this run reads; the text inputs are keyed by the
\* donor id, so what was typed applies to the record that was shown and any other
\* record is confirmed with its stored values; st.rerun()
AppEditorConfirm(s) ==
    /\ pc[s] = "screen" /\ user_role[s] = "editor" /\ clicked[s] = "confirm"
    /\ \E pending \in get_pending_donors(donors), typed_name \in Names, typed_amount \in Amounts :
          /\ pending # <<>>
          /\ LET donor == pending[1]
                 shown == donor.id = editor_donor_id[s]
                 edited_name == IF shown THEN typed_name ELSE donor.full_name
                 edited_amount == IF shown THEN typed_amount ELSE donor.amount
             IN  /\ donors' = update_donor(donors, donor.id, edited_name, edited_amount)
                 /\ scenario' = IF scenario = 4 /\ s = SessionB /\ shown
                                   /\ edited_name = "Anon" /\ edited_amount = "20"
                                THEN 5
                                ELSE Off
    /\ editor_donor_id' = [editor_donor_id EXCEPT ![s] = 0]
    /\ clicked' = [clicked EXCEPT ![s] = "none"]
    /\ pc' = [pc EXCEPT ![s] = "get_roles"]
    /\ UNCHANGED <<roles, seq, now, admin_session, editor_session, user_role, admin_taken,
                   editor_taken, pass_input, message, callVars, event_stopped, parser, photo,
                   lockVars, screenVars>>

\* Upload screen: the donor takes a photo, which runs the script again
AppTakePhoto(s) ==
    /\ pc[s] = "rendered" /\ user_role[s] = "donor" /\ photo[s] = "none"
    /\ \E img \in AppImages :
          /\ img \notin {d.image_data : d \in donors} \cup {photo[t] : t \in Sessions}
          /\ photo' = [photo EXCEPT ![s] = img]
    /\ pc' = [pc EXCEPT ![s] = "get_roles"]
    /\ scenario' = IF scenario = 3 /\ s = SessionC THEN 3 ELSE Off
    /\ UNCHANGED <<roles, storeVars, admin_session, editor_session, user_role, loginVars,
                   callVars, event_stopped, editor_donor_id, parser,
                   lockVars, screenVars>>

\* Upload screen: the donor clears the photo, which runs the script again
AppClearPhoto(s) ==
    /\ pc[s] = "rendered" /\ user_role[s] = "donor" /\ photo[s] # "none"
    /\ photo' = [photo EXCEPT ![s] = "none"]
    /\ pc' = [pc EXCEPT ![s] = "get_roles"]
    /\ scenario' = Off
    /\ UNCHANGED <<roles, storeVars, admin_session, editor_session, user_role, loginVars,
                   callVars, event_stopped, editor_donor_id, parser,
                   lockVars, screenVars>>

\* Upload screen without a photo: only the camera widget is rendered
AppDonorIdle(s) ==
    /\ pc[s] = "screen" /\ user_role[s] = "donor" /\ photo[s] = "none"
    /\ pc' = [pc EXCEPT ![s] = "rendered"]
    /\ scenario' = Automatic
    /\ UNCHANGED <<roles, storeVars, admin_session, editor_session, user_role, loginVars,
                   callVars, event_stopped, editor_donor_id, parser, photo,
                   lockVars, screenVars>>

\* Upload screen with a photo: the agents return a dictionary (truthy whatever its
\* fields hold), add_donor_pending(image_bytes, processed) stores it, and after
\* time.sleep(2), over which the clock passes a second, st.rerun() runs the script
\* again with the photo still set
AppDonorUpload(s) ==
    /\ pc[s] = "screen" /\ user_role[s] = "donor" /\ photo[s] # "none"
    /\ seq < MaxSubmits
    /\ \E n \in Names, a \in Amounts :
          /\ donors' = add_donor_pending(donors, seq + 1, now, photo[s], [name |-> n, amount |-> a])
          /\ scenario' = IF scenario = 3
                         THEN (IF s = SessionC /\ n = "" /\ a = "" THEN 4 ELSE Off)
                         ELSE Automatic
    /\ seq' = seq + 1
    /\ now' = now + 1
    /\ pc' = [pc EXCEPT ![s] = "get_roles"]
    /\ UNCHANGED <<roles, admin_session, editor_session, user_role, loginVars,
                   callVars, event_stopped, editor_donor_id, parser, photo,
                   lockVars, screenVars>>

\* Upload screen with a photo the vision agent fails on: extract_with_vision_agent
\* returns None, the error is shown and nothing is stored
AppDonorExtractFails(s) ==
    /\ pc[s] = "screen" /\ user_role[s] = "donor" /\ photo[s] # "none"
    /\ pc' = [pc EXCEPT ![s] = "rendered"]
    /\ scenario' = IF scenario = 3 THEN Off ELSE Automatic
    /\ UNCHANGED <<roles, storeVars, admin_session, editor_session, user_role, loginVars,
                   callVars, event_stopped, editor_donor_id, parser, photo,
                   lockVars, screenVars>>

NextApp ==
    \/ \E s \in Sessions :
          \/ Connect(s)
          \/ AppDetermineRole(s)
          \/ Rerun(s)
          \/ \E button \in {"clear_all", "confirm"} : AppClick(s, button)
          \/ AppClearAll(s)
          \/ AppAdminDashboard(s)
          \/ AppEditorShow(s)
          \/ AppEditorConfirm(s)
          \/ AppTakePhoto(s)
          \/ AppClearPhoto(s)
          \/ AppDonorIdle(s)
          \/ AppDonorUpload(s)
          \/ AppDonorExtractFails(s)

SpecApp == Init /\ [][NextApp]_vars

\* C19: submit performs no validation: for every extraction result, the upload of a
\* photo creates exactly one new pending record holding exactly that name, that amount
\* and the submitted image - a step that stores a record stores one pending record
\* with the uploader's photo, and that photo had no record before
C19_UploadCreatesExactlyOne ==
    [][seq' = seq + 1 =>
          \E s \in Sessions, n \in Names, a \in Amounts :
             /\ pc[s] = "screen" /\ photo[s] # "none"
             /\ donors' = add_donor_pending(donors, seq', now, photo[s], [name |-> n, amount |-> a])
             /\ {d \in donors : d.image_data = photo[s]} = {}]_vars

\* C20: when A, B and C evaluate their roles first, second and third, A is admin, B
\* editor and C uploader; after C submits an empty extraction and B, shown that
\* record, confirms it as "Anon" / "20", A's next dashboard refresh shows total
\* raised 20, donation count 1, and the pending queue is empty
C20_EndToEnd ==
    /\ scenario \in 1..6 => user_role[SessionA] = "admin"
    /\ scenario \in 2..6 => user_role[SessionB] = "editor"
    /\ scenario \in 3..6 => user_role[SessionC] = "donor"
    /\ scenario = 6 =>
          /\ outcome.total = 20 * 100
          /\ outcome.count = 1
          /\ get_pending_donors(donors) = {<<>>}


--------------------------------------------------------------------------
(***************************************************************************)
(* db_lock.  The script is executed from its first line by every run of    *)
(* every session, in a namespace of that run, so 'db_lock =                *)
(* threading.Lock()' at module level makes a Lock for the run, and the     *)
(* store functions the run defines use that one.                           *)
(***************************************************************************)

\* Lock objects created in all
MaxLocks == 3

\* A script run begins: db_lock = threading.Lock()
ScriptRun(s) ==
    /\ in_section[s] = "none"
    /\ locks < MaxLocks
    /\ locks' = locks + 1
    /\ db_lock' = [db_lock EXCEPT ![s] = locks + 1]
    /\ UNCHANGED <<roles, storeVars, sessionVars, loginVars, callVars, event_stopped,
                   editor_donor_id, uploadVars, locked, in_section, screenVars>>

\* with db_lock: the run enters get_roles() or set_role(...) once its Lock is free
Acquire(s) ==
    /\ db_lock[s] # None
    /\ in_section[s] = "none"
    /\ db_lock[s] \notin locked
    /\ locked' = locked \cup {db_lock[s]}
    /\ \E f \in {"get_roles", "set_role"} : in_section' = [in_section EXCEPT ![s] = f]
    /\ UNCHANGED <<roles, storeVars, sessionVars, loginVars, callVars, event_stopped,
                   editor_donor_id, uploadVars, db_lock, locks, screenVars>>

\* The body of the function runs on the roles table (what get_roles() returns stays
\* with its caller), and the with block is left
Release(s) ==
    /\ in_section[s] # "none"
    /\ IF in_section[s] = "set_role"
       THEN \E role_type \in {"admin", "editor"} : roles' = set_role(roles, role_type, s)
       ELSE UNCHANGED roles
    /\ locked' = locked \ {db_lock[s]}
    /\ in_section' = [in_section EXCEPT ![s] = "none"]
    /\ UNCHANGED <<storeVars, sessionVars, loginVars, callVars, event_stopped,
                   editor_donor_id, uploadVars, db_lock, locks, screenVars>>

NextLock ==
    \E s \in Sessions :
        \/ ScriptRun(s)
        \/ Acquire(s)
        \/ Release(s)

SpecLock == Init /\ [][NextLock]_vars

\* C22: a global mutex serializes store access: at any moment at most one store
\* operation, across all sessions and script runs, is inside its 'with db_lock'
\* block, and the lock one session's script run acquires is the lock every other
\* session's script run acquires.
C22_GlobalMutex ==
    /\ Cardinality({s \in Sessions : in_section[s] # "none"}) <= 1
    /\ \A s, t \in Sessions :
          (db_lock[s] # None /\ db_lock[t] # None) => db_lock[s] = db_lock[t]


--------------------------------------------------------------------------
(***************************************************************************)
(* The editor screen under uploads and the admin's 'Clear All': the        *)
(* screen of 2agents.py (so of 2agents_display.py and pot.py, whose Skip   *)
(* is the same) and of login.py, whose Skip has its update_donor call      *)
(* commented out.  A session arrives here with user_role 'editor' (Spec    *)
(* and SpecLogin have how); each run of the screen reads pending[0] anew,  *)
(* and the text inputs are keyed by the donor id.                          *)
(***************************************************************************)

\* Forms uploaded while the editor reviews
MaxReview == 2

\* The script that serves the page
Deploy(v) ==
    /\ app = "none"
    /\ app' = v
    /\ UNCHANGED <<roles, storeVars, sessionVars, loginVars, callVars, event_stopped,
                   editor_donor_id, uploadVars, lockVars, last_shown_donor_id>>

\* A session reaches 'elif user_role == "editor"'
ReviewOpen(s) ==
    /\ app # "none"
    /\ pc[s] = "absent"
    /\ \A t \in Sessions : user_role[t] # "editor"
    /\ user_role' = [user_role EXCEPT ![s] = "editor"]
    /\ pc' = [pc EXCEPT ![s] = "screen"]
    /\ UNCHANGED <<roles, storeVars, admin_session, editor_session, loginVars, callVars,
                   appVars>>

\* A donor's upload: add_donor_pending(image_bytes, processed), a second after the last
ReviewUpload ==
    /\ app # "none"
    /\ seq < MaxReview
    /\ \E img \in Images, n \in Names :
          donors' = add_donor_pending(donors, seq + 1, now, img, [name |-> n, amount |-> ""])
    /\ seq' = seq + 1
    /\ now' = now + 1
    /\ UNCHANGED <<roles, sessionVars, loginVars, callVars, appVars>>

\* The admin's 'Clear All': clear_all_donors()
ReviewClearAll ==
    /\ app # "none"
    /\ donors # {}
    /\ donors' = clear_all_donors(donors)
    /\ UNCHANGED <<roles, seq, now, sessionVars, loginVars, callVars, appVars>>

\* A run no button started: pending = get_pending_donors(); pending[0] is displayed
\* with its stored name and amount, or the notice that nothing is pending
ReviewShow(s) ==
    /\ pc[s] = "screen" /\ user_role[s] = "editor"
    /\ \E pending \in get_pending_donors(donors) :
          /\ clicked[s] = "none" \/ pending = <<>>
          /\ editor_donor_id' = [editor_donor_id EXCEPT
                                   ![s] = IF pending = <<>> THEN 0 ELSE pending[1].id]
          /\ lastCall' = [op |-> "displayed",
                          donor_id |-> IF pending = <<>> THEN 0 ELSE pending[1].id,
                          name |-> "", amount |-> "", prior |-> {}]
    /\ clicked' = [clicked EXCEPT ![s] = "none"]
    /\ pc' = [pc EXCEPT ![s] = "rendered"]
    /\ UNCHANGED <<roles, storeVars, admin_session, editor_session, user_role, admin_taken,
                   editor_taken, pass_input, message, outcome, event_stopped, uploadVars,
                   lockVars, screenVars>>

\* time.sleep(3); st.rerun()
ReviewRefresh(s) ==
    /\ pc[s] = "rendered" /\ user_role[s] = "editor"
    /\ pc' = [pc EXCEPT ![s] = "screen"]
    /\ UNCHANGED <<roles, storeVars, admin_session, editor_session, user_role, loginVars,
                   callVars, appVars>>

\* The editor presses 'Confirm Donation' or 'Skip' under the record displayed
ReviewClick(s, button) ==
    /\ pc[s] = "rendered" /\ user_role[s] = "editor"
    /\ editor_donor_id[s] # 0
    /\ clicked' = [clicked EXCEPT ![s] = button]
    /\ pc' = [pc EXCEPT ![s] = "screen"]
    /\ UNCHANGED <<roles, storeVars, admin_session, editor_session, user_role, admin_taken,
                   editor_taken, pass_input, message, callVars, appVars>>

\* The run 'Confirm Donation' started: update_donor(donor_id, edited_name,
\* edited_amount) with the donor_id this run read; what was typed is in the inputs of
\* the record that was displayed, another record has its stored values; st.rerun()
ReviewConfirm(s) ==
    /\ pc[s] = "screen" /\ user_role[s] = "editor" /\ clicked[s] = "confirm"
    /\ \E pending \in get_pending_donors(donors), typed_name \in Names, typed_amount \in Amounts :
          /\ pending # <<>>
          /\ LET donor == pending[1]
                 shown == donor.id = editor_donor_id[s]
                 edited_name == IF shown THEN typed_name ELSE donor.full_name
                 edited_amount == IF shown THEN typed_amount ELSE donor.amount
             IN  /\ donors' = update_donor(donors, donor.id, edited_name, edited_amount)
                 /\ lastCall' = [op |-> "update_donor", donor_id |-> donor.id,
                                 name |-> edited_name, amount |-> edited_amount,
                                 prior |-> Prior(donors, donor.id)]
    /\ clicked' = [clicked EXCEPT ![s] = "none"]
    /\ UNCHANGED <<roles, seq, now, sessionVars, admin_taken, editor_taken, pass_input,
                   message, outcome, appVars>>

\* The run 'Skip' started: 2agents.py calls update_donor(donor_id, edited_name,
\* edited_amount) as Confirm does, login.py calls nothing; st.rerun()
ReviewSkip(s) ==
    /\ pc[s] = "screen" /\ user_role[s] = "editor" /\ clicked[s] = "skip"
    /\ \E pending \in get_pending_donors(donors), typed_name \in Names, typed_amount \in Amounts :
          /\ pending # <<>>
          /\ LET donor == pending[1]
                 shown == donor.id = editor_donor_id[s]
                 edited_name == IF shown THEN typed_name ELSE donor.full_name
                 edited_amount == IF shown THEN typed_amount ELSE donor.amount
             IN  /\ donors' = IF app = "2agents"
                              THEN update_donor(donors, donor.id, edited_name, edited_amount)
                              ELSE donors
                 /\ lastCall' = [op |-> "skip", donor_id |-> donor.id,
                                 name |-> "", amount |-> "",
                                 prior |-> {pending[i].id : i \in 1..Len(pending)}]
    /\ clicked' = [clicked EXCEPT ![s] = "none"]
    /\ UNCHANGED <<roles, seq, now, sessionVars, admin_taken, editor_taken, pass_input,
                   message, outcome, appVars>>

NextReview ==
    \/ \E v \in {"2agents", "login"} : Deploy(v)
    \/ ReviewUpload
    \/ ReviewClearAll
    \/ \E s \in Sessions :
          \/ ReviewOpen(s)
          \/ ReviewShow(s)
          \/ ReviewRefresh(s)
          \/ \E button \in {"confirm", "skip"} : ReviewClick(s, button)
          \/ ReviewConfirm(s)
          \/ ReviewSkip(s)

SpecReview == Init /\ [][NextReview]_vars

\* The editor keeps pressing a button under whatever record is displayed, and the
\* runs the presses and the timer start do run
SpecReviewFair ==
    /\ SpecReview
    /\ WF_vars(\E v \in {"2agents", "login"} : Deploy(v))
    /\ \A s \in Sessions :
          /\ WF_vars(ReviewOpen(s))
          /\ WF_vars(ReviewShow(s))
          /\ WF_vars(ReviewRefresh(s))
          /\ WF_vars(ReviewConfirm(s))
          /\ WF_vars(ReviewSkip(s))
          /\ SF_vars(\E button \in {"confirm", "skip"} : ReviewClick(s, button))

\* C23: Skip does not finalize: in every variant of the editor screen, a press of
\* Skip leaves the record's status 'pending' and its name and amount unchanged;
\* Skip never calls update_donor, so the donors table is as it was.
C23_SkipDoesNotFinalize ==
    [][ (lastCall' # lastCall /\ lastCall'.op = "skip") => donors' = donors ]_vars

\* C28: Confirm acts on the record the editor saw: whenever a Confirm press results
\* in update_donor(id, n, a), id is the record that was displayed to the editor
\* when they pressed (and n, a the contents of its input fields), whatever uploads
\* and clear_all_donors calls came between the last render and the press's run.
C28_ConfirmActsOnDisplayed ==
    [][ (lastCall' # lastCall /\ lastCall'.op = "update_donor") =>
           \E s \in Sessions :
              /\ user_role[s] = "editor" /\ clicked[s] = "confirm"
              /\ lastCall'.donor_id = editor_donor_id[s] ]_vars

\* C30: the review queue makes progress: if the editor keeps pressing Confirm or
\* Skip on whatever record is displayed, every pending record is eventually
\* displayed to the editor (or is pending no more); and after Skip on the head
\* record with more than one record pending, the next record displayed is another.
C30_QueueProgress ==
    /\ \A id \in 1..MaxReview :
          (\E d \in donors : d.id = id /\ d.status = "pending")
             ~> \/ \E s \in Sessions : user_role[s] = "editor" /\ editor_donor_id[s] = id
                \/ ~(\E d \in donors : d.id = id /\ d.status = "pending")
    /\ [][ (lastCall.op = "skip" /\ Cardinality(lastCall.prior) > 1
            /\ lastCall'.op = "displayed")
              => lastCall'.donor_id # lastCall.donor_id ]_vars


--------------------------------------------------------------------------
(***************************************************************************)
(* The live donor wall of the admin dashboard (2agents_display.py,         *)
(* login.py) under uploads and the editor's confirmations: each refresh    *)
(* shows the card of donors[0] unless its id is last_shown_donor_id.       *)
(***************************************************************************)

\* Forms uploaded while the wall is watched
MaxWall == 3

\* A donor's upload: add_donor_pending(image_bytes, processed), a second after the last
WallUpload ==
    /\ seq < MaxWall
    /\ \E img \in Images, n \in Names :
          donors' = add_donor_pending(donors, seq + 1, now, img, [name |-> n, amount |-> "20"])
    /\ seq' = seq + 1
    /\ now' = now + 1
    /\ UNCHANGED <<roles, sessionVars, loginVars, callVars, appVars>>

\* The editor confirms the record displayed, the oldest pending one, as it stands
WallConfirm ==
    /\ \E pending \in get_pending_donors(donors) :
          /\ pending # <<>>
          /\ donors' = update_donor(donors, pending[1].id, pending[1].full_name, pending[1].amount)
    /\ UNCHANGED <<roles, seq, now, sessionVars, loginVars, callVars, appVars>>

\* A run of the dashboard: donors = get_confirmed_donors(); latest_donor = donors[0];
\* its card is displayed, and its id remembered, when the id is not the one
\* remembered; time.sleep(...); st.rerun() follows
WallRefresh ==
    /\ \E confirmed \in get_confirmed_donors(donors) :
          last_shown_donor_id' =
              IF confirmed # <<>> /\ latest_donor(confirmed).id # last_shown_donor_id
              THEN latest_donor(confirmed).id
              ELSE last_shown_donor_id
    /\ UNCHANGED <<roles, storeVars, sessionVars, loginVars, callVars, event_stopped,
                   editor_donor_id, uploadVars, lockVars, app>>

\* 'Clear All Donors': clear_all_donors(); last_shown_donor_id = None; st.rerun()
WallClearAll ==
    /\ donors # {}
    /\ donors' = clear_all_donors(donors)
    /\ last_shown_donor_id' = None
    /\ UNCHANGED <<roles, seq, now, sessionVars, loginVars, callVars, event_stopped,
                   editor_donor_id, uploadVars, lockVars, app>>

NextWall ==
    \/ WallUpload
    \/ WallConfirm
    \/ WallRefresh
    \/ WallClearAll

SpecWall == Init /\ [][NextWall]_vars

\* The dashboard keeps auto-refreshing
SpecWallFair == SpecWall /\ WF_vars(WallRefresh)

\* C29: every confirmed donation reaches the donor wall: if the dashboard keeps
\* auto-refreshing, every record that becomes confirmed is at some refresh the latest
\* donor with an id other than last_shown_donor_id, so that its card is displayed
\* (its id remembered), unless it is cleared - also when several records are
\* confirmed between two refreshes.
C29_EveryConfirmedShown ==
    \A id \in 1..MaxWall :
        (\E d \in donors : d.id = id /\ d.status = "confirmed")
           ~> (last_shown_donor_id = id \/ ~(\E d \in donors : d.id = id))

=============================================================================
